---- MODULE Spec2Model ----
(***************************************************************************)
(* Model of src/brute_zip.py: find_password and its helpers               *)
(* iter_wordlist, try_zipfile_open and try_pyzipper.                      *)
(*                                                                         *)
(* Text is a sequence of Unicode code points, bytes are sequences of      *)
(* integers 0..255.  The archive file, the wordlist file, the presence of *)
(* the pyzipper package and the verbose flag are the inputs of a run and  *)
(* are fixed by Init.  time.time() only feeds the text of one diagnostic  *)
(* line and is left out.  Writes to sys.stdout and sys.stderr are taken   *)
(* to succeed; stderr is kept as the sequence of the messages' kinds.     *)
(***************************************************************************)
EXTENDS Integers, Sequences, FiniteSets, TLC

(* ------------------------------ bounds -------------------------------- *)
MaxEntries == 2          \* archive listings of at most this many entries
MaxLines == 2            \* short wordlists of at most this many lines
LongExtra == 1           \* lines that follow the first 100 of the long wordlist

(* ------------------------- program constants -------------------------- *)
ProgressEvery == 100     \* total_tried % 100 == 0
LF == 10                 \* '\n'
CR == 13                 \* '\r'

(* code points used in wordlists: 'a', e-acute, euro sign *)
ChA == 97
ChEacute == 233
ChEuro == 8364

NoBytes == << >>

(* ----------------------------- encodings ------------------------------ *)
\* the tuple ('utf-8', 'latin-1') of the encoding loop
Encodings == << "utf-8", "latin-1" >>

\* mutant: every code point is written as one byte
Utf8Char_OneByte(cp) == << cp % 256 >>

\* UTF-8 bytes of one code point (1, 2 or 3 byte forms)
Utf8Char(cp) ==
    IF cp < 128 THEN << cp >>
    ELSE IF cp < 2048 THEN << 192 + (cp \div 64), 128 + (cp % 64) >>
    ELSE << 224 + (cp \div 4096), 128 + ((cp \div 64) % 64), 128 + (cp % 64) >>

\* lone surrogates are the only code points str.encode('utf-8') rejects
Utf8Ok(cp) == ~(cp >= 55296 /\ cp <= 57343)

\* str.encode('latin-1') accepts exactly the code points below 256
Latin1Ok(cp) == cp < 256

RECURSIVE EncodeBytes(_, _)
EncodeBytes(s, enc) ==
    IF s = << >> THEN << >>
    ELSE (IF enc = "utf-8" THEN Utf8Char(Head(s)) ELSE << Head(s) >>)
             \o EncodeBytes(Tail(s), enc)

EncodeOk(s, enc) ==
    \A i \in 1..Len(s) :
        IF enc = "utf-8" THEN Utf8Ok(s[i]) ELSE Latin1Ok(s[i])

\* candidate.encode(enc): ok = FALSE stands for the raised exception
Encode(s, enc) ==
    IF EncodeOk(s, enc) THEN [ok |-> TRUE, bytes |-> EncodeBytes(s, enc)]
    ELSE [ok |-> FALSE, bytes |-> NoBytes]

(* --------------------------- wordlist reader -------------------------- *)
\* mutant: the line is yielded as read
rstrip_None(line) == line

\* line.rstrip('\n\r')
RECURSIVE rstrip(_)
rstrip(line) ==
    IF line = << >> THEN << >>
    ELSE IF line[Len(line)] \in {LF, CR}
         THEN rstrip(SubSeq(line, 1, Len(line) - 1))
         ELSE line

(* ------------------------------ archive ------------------------------- *)
\* mutant: no entry counts as a directory
IsDir_Never(name) == FALSE

\* m.endswith('/')
IsDir(name) == name = "d/"

\* [m for m in z.namelist() if not m.endswith('/')]
RECURSIVE NonDirs(_)
NonDirs(names) ==
    IF names = << >> THEN << >>
    ELSE IF IsDir(Head(names)) THEN NonDirs(Tail(names))
         ELSE << Head(names) >> \o NonDirs(Tail(names))

\* z.open(member, pwd=...) followed by fh.read(1) raises nothing.  The
\* built-in reader knows only the legacy cipher; it checks the password
\* against a single check byte of the encryption header, and reading one
\* byte does not reach the CRC check, so besides the archive's password
\* the byte strings in zf.collide pass as well.
try_zipfile_open(zf, member, pwd) ==
    /\ zf.scheme = "zipcrypto"
    /\ member \in { zf.names[i] : i \in 1..Len(zf.names) }
    /\ pwd = zf.pwd \/ pwd \in zf.collide

\* AESZipFile(zip_path).open(member, pwd=...) followed by fh.read(1): the
\* pyzipper reader handles both ciphers.
try_pyzipper(zf, member, pwd) ==
    /\ zf.state = "ok"
    /\ member \in { zf.names[i] : i \in 1..Len(zf.names) }
    /\ pwd = zf.pwd \/ pwd \in zf.collide


(* ------------------------------- inputs ------------------------------- *)
FileNames == { "d/", "a", "b" }

RECURSIVE SeqsUpTo(_, _)
SeqsUpTo(S, n) ==
    IF n = 0 THEN { << >> }
    ELSE LET shorter == SeqsUpTo(S, n - 1)
         IN  shorter \cup { Append(q, x) : q \in { r \in shorter : Len(r) = n - 1 }, x \in S }

\* archive listings: entry names, without repetition, in archive order
Listings ==
    { n \in SeqsUpTo(FileNames, MaxEntries) :
        \A i, j \in 1..Len(n) : i # j => n[i] # n[j] }

\* password bytes an archive may have been encrypted with
PwdChoices == { << ChA >>, << ChEacute >>, Utf8Char(ChEacute) }

\* wrong byte strings that may pass the probes' partial validation
CollideChoices == { {}, { << ChA >> } }

BrokenArchive(st) ==
    [state |-> st, names |-> << >>, listFails |-> FALSE, scheme |-> "zipcrypto",
     pwd |-> NoBytes, collide |-> {}]

Archives ==
    { BrokenArchive(st) : st \in { "missing", "bad", "ioerr" } }
    \cup { [BrokenArchive("ok") EXCEPT !.listFails = TRUE] }
    \cup { a \in [state : { "ok" }, names : Listings,
                   listFails : { FALSE }, scheme : { "zipcrypto", "aes" },
                   pwd : PwdChoices, collide : CollideChoices] :
              a.pwd \notin a.collide }

\* lines as the text layer delivers them: universal newlines leave one
\* '\n' at the end of every line but possibly the last
TerminatedLines == { << ChA, LF >>, << ChEacute, LF >>, << LF >> }
RawLines == TerminatedLines \cup { << ChEacute >> }

ShortTexts ==
    { t \in SeqsUpTo(RawLines, MaxLines) :
        \A i \in 1..(Len(t) - 1) : t[i] \in TerminatedLines }

\* a wordlist long enough for the progress line: 100 wrong candidates,
\* then LongExtra further lines
LongText ==
    [i \in 1..(ProgressEvery + LongExtra) |->
        IF i <= ProgressEvery THEN << ChEuro, LF >> ELSE << ChEacute, LF >>]

MissingWordlist == [exists |-> FALSE, lines |-> << >>, tail |-> "eof", rest |-> << >>]

\* what the file holds behind the point of a read error, never delivered
RestChoices == { << >>, << << ChEacute, LF >> >> }

\* tail: what follows the last readable line, end of file or a read error
\* (no partial line is delivered before a read error);
\* rest: the lines of the file that lie behind the read error
ShortWordlists ==
    { MissingWordlist }
    \cup { [exists |-> TRUE, lines |-> t, tail |-> "eof", rest |-> << >>] :
             t \in ShortTexts }
    \cup { [exists |-> TRUE, lines |-> t, tail |-> "ioerror", rest |-> r] :
             t \in { u \in ShortTexts : \A i \in 1..Len(u) : u[i] \in TerminatedLines },
             r \in RestChoices }

LongWordlists ==
    { [exists |-> TRUE, lines |-> LongText, tail |-> e, rest |-> << >>] :
        e \in { "eof", "ioerror" } }

LongArchives == { a \in Archives : a.state = "ok" /\ a.names = << "a" >> }

(* ------------------------------- state -------------------------------- *)
VARIABLES
    zip_path,          \* input: the archive file behind zip_path
    wordlist_path,     \* input: the wordlist file behind wordlist_path
    pyzInstalled,      \* input: "import pyzipper" succeeds
    verbose,           \* input: the verbose argument
    pc,                \* position in find_password
    z,                 \* the ZipFile handle: "none", "open", "closed"
    members,
    target_member,
    pyzipper_module,   \* TRUE when the module object was bound
    wlOpened,          \* iter_wordlist has opened the file
    pos,               \* lines consumed from the wordlist
    total_tried,
    candidate,
    encIdx,            \* index into Encodings of the loop variable enc
    pwd_bytes,
    stdout,
    stderr,
    rc,                \* return value, -1 while running
    trace,             \* wordlist reads and verification attempts, in order
    run,               \* 1 for the first invocation, 2 for a repeated one
    prev               \* what the first invocation ended with

inputs == << zip_path, wordlist_path, pyzInstalled >>
locals == << members, target_member, pyzipper_module, wlOpened, pos, total_tried,
             candidate, encIdx, pwd_bytes >>
vars == << zip_path, wordlist_path, pyzInstalled, verbose, pc, z, members,
           target_member, pyzipper_module, wlOpened, pos, total_tried, candidate,
           encIdx, pwd_bytes, stdout, stderr, rc, trace, run, prev >>

NoPrev == [rc |-> -1, stdout |-> << >>, trace |-> << >>, verbose |-> FALSE,
           stderr |-> << >>]

Fresh ==
    /\ pc = "open_zip"
    /\ z = "none"
    /\ members = << >>
    /\ target_member = ""
    /\ pyzipper_module = FALSE
    /\ wlOpened = FALSE
    /\ pos = 0
    /\ total_tried = 0
    /\ candidate = << >>
    /\ encIdx = 1
    /\ pwd_bytes = NoBytes
    /\ stdout = << >>
    /\ stderr = << >>
    /\ rc = -1
    /\ trace = << >>

Init ==
    /\ \/ /\ zip_path \in Archives
          /\ wordlist_path \in ShortWordlists
       \/ /\ zip_path \in LongArchives
          /\ wordlist_path \in LongWordlists
    /\ pyzInstalled \in BOOLEAN
    /\ verbose \in BOOLEAN
    /\ Fresh
    /\ run = 1
    /\ prev = NoPrev


(* ------------------------------ helpers ------------------------------- *)
ReadEvent(n) ==
    [kind |-> "read", cap |-> "-", enc |-> "-", idx |-> n, bytes |-> NoBytes,
     member |-> "-"]

ProbeEvent(c) ==
    [kind |-> "probe", cap |-> c, enc |-> Encodings[encIdx], idx |-> total_tried,
     bytes |-> pwd_bytes, member |-> target_member]

\* print(..., file=sys.stderr) when verbose
Debug(msg) == IF verbose THEN Append(stderr, msg) ELSE stderr

\* find_password never closes z: when it returns, the local goes out of
\* scope and the file behind it is closed only if and when the runtime
\* finalizes the object
HandleAfterReturn == IF z = "open" THEN { "open", "closed" } ELSE { z }

\* return <code>
Return(code) ==
    /\ pc' = "done"
    /\ rc' = code
    /\ z' \in HandleAfterReturn

\* mutant: a match leaves the encoding loop without returning
Found_NoReturn ==
    /\ stdout' = Append(stdout, candidate)
    /\ pc' = "progress"
    /\ UNCHANGED << rc, z >>

\* mutant: the password is printed under a banner line
Found_Decorated ==
    /\ stdout' = Append(Append(stdout, << ChA >>), candidate)
    /\ Return(0)

\* print(candidate); return 0
Found ==
    /\ stdout' = Append(stdout, candidate)
    /\ Return(0)

\* mutant: the encoding loop is left after its first pass
NextEncoding_Abandon == encIdx' = encIdx /\ pc' = "progress"

\* the end of one pass of "for enc in ('utf-8', 'latin-1')"
NextEncoding ==
    IF encIdx < Len(Encodings)
    THEN encIdx' = encIdx + 1 /\ pc' = "encode"
    ELSE encIdx' = encIdx /\ pc' = "progress"

(* ------------------------------ actions ------------------------------- *)
\* z = ZipFile(zip_path) raises FileNotFoundError
OpenZipNotFound ==
    /\ pc = "open_zip"
    /\ zip_path.state = "missing"
    /\ stderr' = Append(stderr, "zip_not_found")
    /\ Return(2)
    /\ UNCHANGED << inputs, verbose, locals, stdout, trace, run, prev >>

\* mutant: the BadZipFile handler reports and carries on
OpenZipBad_CarriesOn ==
    /\ pc = "open_zip"
    /\ zip_path.state = "bad"
    /\ stderr' = Append(stderr, "bad_zip")
    /\ pc' = "import"
    /\ UNCHANGED << inputs, verbose, locals, stdout, trace, run, prev, rc, z >>

\* z = ZipFile(zip_path) raises BadZipFile
OpenZipBad ==
    /\ pc = "open_zip"
    /\ zip_path.state = "bad"
    /\ stderr' = Append(stderr, "bad_zip")
    /\ Return(2)
    /\ UNCHANGED << inputs, verbose, locals, stdout, trace, run, prev >>

\* z = ZipFile(zip_path) raises another exception
OpenZipError ==
    /\ pc = "open_zip"
    /\ zip_path.state = "ioerr"
    /\ stderr' = Append(stderr, "zip_open_err")
    /\ Return(2)
    /\ UNCHANGED << inputs, verbose, locals, stdout, trace, run, prev >>

\* z = ZipFile(zip_path) succeeds
OpenZipOk ==
    /\ pc = "open_zip"
    /\ zip_path.state = "ok"
    /\ z' = "open"
    /\ pc' = "list"
    /\ UNCHANGED << inputs, verbose, locals, stdout, stderr, rc, trace, run, prev >>

\* z.namelist() raises
ListMembersError ==
    /\ pc = "list"
    /\ zip_path.listFails
    /\ stderr' = Append(stderr, "list_err")
    /\ Return(2)
    /\ UNCHANGED << inputs, verbose, locals, stdout, trace, run, prev >>

\* members is empty
NoMembers ==
    /\ pc = "list"
    /\ ~zip_path.listFails
    /\ NonDirs(zip_path.names) = << >>
    /\ members' = << >>
    /\ stderr' = Append(stderr, "no_members")
    /\ Return(2)
    /\ UNCHANGED << inputs, verbose, target_member, pyzipper_module, wlOpened, pos,
                    total_tried, candidate, encIdx, pwd_bytes, stdout, trace, run,
                    prev >>

\* mutant: the last file entry is chosen
SelectTarget_Last ==
    /\ pc = "list"
    /\ ~zip_path.listFails
    /\ NonDirs(zip_path.names) # << >>
    /\ members' = NonDirs(zip_path.names)
    /\ target_member' = members'[Len(members')]
    /\ stderr' = Debug("dbg_member")
    /\ pc' = "import"
    /\ UNCHANGED << inputs, verbose, z, pyzipper_module, wlOpened, pos, total_tried,
                    candidate, encIdx, pwd_bytes, stdout, rc, trace, run, prev >>

\* members = the non-directory entries, non-empty; target_member = members[0]
SelectTarget ==
    /\ pc = "list"
    /\ ~zip_path.listFails
    /\ NonDirs(zip_path.names) # << >>
    /\ members' = NonDirs(zip_path.names)
    /\ target_member' = members'[1]
    /\ stderr' = Debug("dbg_member")
    /\ pc' = "import"
    /\ UNCHANGED << inputs, verbose, z, pyzipper_module, wlOpened, pos, total_tried,
                    candidate, encIdx, pwd_bytes, stdout, rc, trace, run, prev >>

\* import pyzipper, absorbed when it fails; total_tried = 0
ImportPyzipper ==
    /\ pc = "import"
    /\ pyzipper_module' = pyzInstalled
    /\ stderr' = Debug(IF pyzInstalled THEN "dbg_pyz" ELSE "dbg_nopyz")
    /\ total_tried' = 0
    /\ pc' = "next"
    /\ UNCHANGED << inputs, verbose, z, members, target_member, wlOpened, pos,
                    candidate, encIdx, pwd_bytes, stdout, rc, trace, run, prev >>

\* mutant: iter_wordlist swallows FileNotFoundError and yields nothing
WordlistNotFound_Swallowed ==
    /\ pc = "next"
    /\ ~wordlist_path.exists
    /\ Return(1)
    /\ UNCHANGED << inputs, verbose, locals, stdout, stderr, trace, run, prev >>

\* the first next() of iter_wordlist: open() raises FileNotFoundError
WordlistNotFound ==
    /\ pc = "next"
    /\ ~wordlist_path.exists
    /\ stderr' = Append(stderr, "wl_not_found")
    /\ Return(2)
    /\ UNCHANGED << inputs, verbose, locals, stdout, trace, run, prev >>

\* mutant: the whole wordlist is read before the first candidate is handed
\* over, so a read error anywhere in it ends the run at once
ReadLine_Eager ==
    /\ pc = "next"
    /\ wordlist_path.exists
    /\ pos < Len(wordlist_path.lines)
    /\ wlOpened' = TRUE
    /\ IF wordlist_path.tail = "ioerror"
       THEN /\ stderr' = Append(stderr, "wl_read_err")
            /\ Return(2)
            /\ UNCHANGED << pos, trace, candidate, total_tried, encIdx >>
       ELSE /\ pos' = pos + 1
            /\ trace' = Append(trace, ReadEvent(pos + 1))
            /\ LET s == rstrip(wordlist_path.lines[pos + 1])
               IN  IF s # << >>
                   THEN /\ candidate' = s
                        /\ total_tried' = total_tried + 1
                        /\ encIdx' = 1
                        /\ pc' = "encode"
                   ELSE UNCHANGED << candidate, total_tried, encIdx, pc >>
            /\ UNCHANGED << stderr, rc, z >>
    /\ UNCHANGED << inputs, verbose, members, target_member, pyzipper_module,
                    pwd_bytes, stdout, run, prev >>

\* mutant: an empty line is never passed over
ReadLine_StuckOnEmpty ==
    /\ pc = "next"
    /\ wordlist_path.exists
    /\ pos < Len(wordlist_path.lines)
    /\ wlOpened' = TRUE
    /\ LET s == rstrip(wordlist_path.lines[pos + 1])
       IN  IF s # << >>
           THEN /\ pos' = pos + 1
                /\ trace' = Append(trace, ReadEvent(pos + 1))
                /\ candidate' = s
                /\ total_tried' = total_tried + 1
                /\ encIdx' = 1
                /\ pc' = "encode"
           ELSE UNCHANGED << pos, trace, candidate, total_tried, encIdx, pc >>
    /\ UNCHANGED << inputs, verbose, z, members, target_member, pyzipper_module,
                    pwd_bytes, stdout, stderr, rc, run, prev >>

\* one pass of "for line in f" in iter_wordlist; a non-empty s is yielded to
\* the loop of find_password, which counts it (its own test for an empty
\* candidate never holds there)
ReadLine ==
    /\ pc = "next"
    /\ wordlist_path.exists
    /\ pos < Len(wordlist_path.lines)
    /\ wlOpened' = TRUE
    /\ pos' = pos + 1
    /\ trace' = Append(trace, ReadEvent(pos + 1))
    /\ LET s == rstrip(wordlist_path.lines[pos + 1])
       IN  IF s # << >>
           THEN /\ candidate' = s
                /\ total_tried' = total_tried + 1
                /\ encIdx' = 1
                /\ pc' = "encode"
           ELSE UNCHANGED << candidate, total_tried, encIdx, pc >>
    /\ UNCHANGED << inputs, verbose, z, members, target_member, pyzipper_module,
                    pwd_bytes, stdout, stderr, rc, run, prev >>

\* the wordlist is exhausted: return 1
WordlistExhausted ==
    /\ pc = "next"
    /\ wordlist_path.exists
    /\ pos = Len(wordlist_path.lines)
    /\ wordlist_path.tail = "eof"
    /\ wlOpened' = TRUE
    /\ Return(1)
    /\ UNCHANGED << inputs, verbose, members, target_member, pyzipper_module, pos,
                    total_tried, candidate, encIdx, pwd_bytes, stdout, stderr, trace,
                    run, prev >>

\* mutant: the read error is reported and the run ends as NotFound
WordlistReadError_Returns1 ==
    /\ pc = "next"
    /\ wordlist_path.exists
    /\ pos = Len(wordlist_path.lines)
    /\ wordlist_path.tail = "ioerror"
    /\ wlOpened' = TRUE
    /\ stderr' = Append(stderr, "wl_read_err")
    /\ Return(1)
    /\ UNCHANGED << inputs, verbose, members, target_member, pyzipper_module, pos,
                    total_tried, candidate, encIdx, pwd_bytes, stdout, trace, run,
                    prev >>

\* opening or reading the wordlist raises something else
WordlistReadError ==
    /\ pc = "next"
    /\ wordlist_path.exists
    /\ pos = Len(wordlist_path.lines)
    /\ wordlist_path.tail = "ioerror"
    /\ wlOpened' = TRUE
    /\ stderr' = Append(stderr, "wl_read_err")
    /\ Return(2)
    /\ UNCHANGED << inputs, verbose, members, target_member, pyzipper_module, pos,
                    total_tried, candidate, encIdx, pwd_bytes, stdout, trace, run,
                    prev >>

\* pwd_bytes = candidate.encode(enc), "continue" when it raises
EncodeCandidate ==
    /\ pc = "encode"
    /\ LET r == Encode(candidate, Encodings[encIdx])
       IN  IF r.ok
           THEN pwd_bytes' = r.bytes /\ pc' = "primary" /\ encIdx' = encIdx
           ELSE pwd_bytes' = pwd_bytes /\ NextEncoding
    /\ UNCHANGED << inputs, verbose, z, members, target_member, pyzipper_module,
                    wlOpened, pos, total_tried, candidate, stdout, stderr, rc, trace,
                    run, prev >>

\* mutant: a rejected primary probe is tried a second time
ProbePrimary_RetryOnce ==
    /\ pc = "primary"
    /\ trace' = Append(trace, ProbeEvent("primary"))
    /\ IF try_zipfile_open(zip_path, target_member, pwd_bytes)
       THEN Found /\ encIdx' = encIdx
       ELSE /\ pc' = (IF Len(trace) > 0 /\ trace[Len(trace)] = ProbeEvent("primary")
                      THEN "secondary" ELSE "primary")
            /\ UNCHANGED << encIdx, stdout, rc, z >>
    /\ UNCHANGED << inputs, verbose, members, target_member, pyzipper_module,
                    wlOpened, pos, total_tried, candidate, pwd_bytes, stderr, run,
                    prev >>

\* mutant: try_zipfile_open absorbs RuntimeError only, the error of an
\* unsupported cipher reaches the outer handler
ProbePrimary_Raises ==
    /\ pc = "primary"
    /\ trace' = Append(trace, ProbeEvent("primary"))
    /\ IF try_zipfile_open(zip_path, target_member, pwd_bytes)
       THEN Found /\ encIdx' = encIdx /\ stderr' = stderr
       ELSE IF zip_path.scheme = "aes"
            THEN /\ stderr' = Append(stderr, "wl_read_err")
                 /\ Return(2)
                 /\ UNCHANGED << encIdx, stdout >>
            ELSE pc' = "secondary" /\ UNCHANGED << encIdx, stdout, rc, z, stderr >>
    /\ UNCHANGED << inputs, verbose, members, target_member, pyzipper_module,
                    wlOpened, pos, total_tried, candidate, pwd_bytes, run, prev >>

\* if try_zipfile_open(z, target_member, pwd_bytes): print; return 0
ProbePrimary ==
    /\ pc = "primary"
    /\ trace' = Append(trace, ProbeEvent("primary"))
    /\ IF try_zipfile_open(zip_path, target_member, pwd_bytes)
       THEN Found /\ encIdx' = encIdx
       ELSE pc' = "secondary" /\ UNCHANGED << encIdx, stdout, rc, z >>
    /\ UNCHANGED << inputs, verbose, members, target_member, pyzipper_module,
                    wlOpened, pos, total_tried, candidate, pwd_bytes, stderr, run,
                    prev >>

\* mutant: the secondary probe is called without testing pyzipper_module
ProbeSecondary_Unguarded ==
    /\ pc = "secondary"
    /\ trace' = Append(trace, ProbeEvent("secondary"))
    /\ IF pyzipper_module /\ try_pyzipper(zip_path, target_member, pwd_bytes)
       THEN Found /\ encIdx' = encIdx
       ELSE NextEncoding /\ UNCHANGED << stdout, rc, z >>
    /\ UNCHANGED << inputs, verbose, members, target_member, pyzipper_module,
                    wlOpened, pos, total_tried, candidate, pwd_bytes, stderr, run,
                    prev >>

\* mutant: an error inside the secondary probe reaches the outer handler
ProbeSecondary_Raises ==
    /\ pc = "secondary"
    /\ IF pyzipper_module
       THEN /\ trace' = Append(trace, ProbeEvent("secondary"))
            /\ IF try_pyzipper(zip_path, target_member, pwd_bytes)
               THEN Found /\ encIdx' = encIdx /\ stderr' = stderr
               ELSE /\ stderr' = Append(stderr, "wl_read_err")
                    /\ Return(2)
                    /\ UNCHANGED << stdout, encIdx >>
       ELSE NextEncoding /\ UNCHANGED << trace, stdout, rc, z, stderr >>
    /\ UNCHANGED << inputs, verbose, members, target_member, pyzipper_module,
                    wlOpened, pos, total_tried, candidate, pwd_bytes, run, prev >>

\* if pyzipper_module and try_pyzipper(...): print; return 0
ProbeSecondary ==
    /\ pc = "secondary"
    /\ IF pyzipper_module
       THEN /\ trace' = Append(trace, ProbeEvent("secondary"))
            /\ IF try_pyzipper(zip_path, target_member, pwd_bytes)
               THEN Found /\ encIdx' = encIdx
               ELSE NextEncoding /\ UNCHANGED << stdout, rc, z >>
       ELSE NextEncoding /\ UNCHANGED << trace, stdout, rc, z >>
    /\ UNCHANGED << inputs, verbose, members, target_member, pyzipper_module,
                    wlOpened, pos, total_tried, candidate, pwd_bytes, stderr, run,
                    prev >>

\* mutant: the verbose progress report takes a line off the wordlist
Progress_TakesLine ==
    /\ pc = "progress"
    /\ IF verbose /\ total_tried % ProgressEvery = 0
       THEN /\ stderr' = Append(stderr, "dbg_progress")
            /\ pos' = IF pos < Len(wordlist_path.lines) THEN pos + 1 ELSE pos
       ELSE UNCHANGED << stderr, pos >>
    /\ pc' = "next"
    /\ UNCHANGED << inputs, verbose, z, members, target_member, pyzipper_module,
                    wlOpened, total_tried, candidate, encIdx, pwd_bytes, stdout, rc,
                    trace, run, prev >>

\* if verbose and total_tried % 100 == 0: print progress to stderr
Progress ==
    /\ pc = "progress"
    /\ stderr' = IF verbose /\ total_tried % ProgressEvery = 0
                 THEN Append(stderr, "dbg_progress") ELSE stderr
    /\ pc' = "next"
    /\ UNCHANGED << inputs, verbose, z, locals, stdout, rc, trace, run, prev >>

\* mutant: the wordlist iterator outlives the invocation
Restart_KeepsPosition ==
    /\ pc = "done"
    /\ run = 1
    /\ run' = 2
    /\ prev' = [rc |-> rc, stdout |-> stdout, trace |-> trace, verbose |-> verbose,
                stderr |-> stderr]
    /\ verbose' \in BOOLEAN
    /\ pc' = "open_zip"
    /\ z' = "none"
    /\ members' = << >>
    /\ target_member' = ""
    /\ pyzipper_module' = FALSE
    /\ total_tried' = 0
    /\ candidate' = << >>
    /\ encIdx' = 1
    /\ pwd_bytes' = NoBytes
    /\ stdout' = << >>
    /\ stderr' = << >>
    /\ rc' = -1
    /\ trace' = << >>
    /\ UNCHANGED << inputs, pos, wlOpened >>

\* main() run again on the same files, with either setting of --verbose
Restart ==
    /\ pc = "done"
    /\ run = 1
    /\ run' = 2
    /\ prev' = [rc |-> rc, stdout |-> stdout, trace |-> trace, verbose |-> verbose,
                stderr |-> stderr]
    /\ verbose' \in BOOLEAN
    /\ pc' = "open_zip"
    /\ z' = "none"
    /\ members' = << >>
    /\ target_member' = ""
    /\ pyzipper_module' = FALSE
    /\ wlOpened' = FALSE
    /\ pos' = 0
    /\ total_tried' = 0
    /\ candidate' = << >>
    /\ encIdx' = 1
    /\ pwd_bytes' = NoBytes
    /\ stdout' = << >>
    /\ stderr' = << >>
    /\ rc' = -1
    /\ trace' = << >>
    /\ UNCHANGED inputs

Next ==
    \/ OpenZipNotFound
    \/ OpenZipBad
    \/ OpenZipError
    \/ OpenZipOk
    \/ ListMembersError
    \/ NoMembers
    \/ SelectTarget
    \/ ImportPyzipper
    \/ WordlistNotFound
    \/ ReadLine
    \/ WordlistExhausted
    \/ WordlistReadError
    \/ EncodeCandidate
    \/ ProbePrimary
    \/ ProbeSecondary
    \/ Progress

Spec == Init /\ [][Next]_vars

NextTwice == Next \/ Restart

SpecTwice == Init /\ [][NextTwice]_vars

\* find_password is one sequential thread: while a statement remains to be
\* executed, the interpreter executes it
SpecFair == Spec /\ WF_vars(Next)


(* ---------------------- vocabulary of the claims ---------------------- *)
\* indices of the lines iter_wordlist yields a candidate for, from line i on
RECURSIVE CandIdx(_, _)
CandIdx(lines, i) ==
    IF i > Len(lines) THEN << >>
    ELSE (IF rstrip(lines[i]) # << >> THEN << i >> ELSE << >>) \o CandIdx(lines, i + 1)

\* the candidates iter_wordlist yields before the end of file or the read
\* error, from line i on
RECURSIVE Yielded(_, _)
Yielded(lines, i) ==
    IF i > Len(lines) THEN << >>
    ELSE (IF rstrip(lines[i]) # << >> THEN << rstrip(lines[i]) >> ELSE << >>)
             \o Yielded(lines, i + 1)

W == Yielded(wordlist_path.lines, 1)

\* LineOf[k] is the wordlist line the k-th candidate comes from
LineOf == CandIdx(wordlist_path.lines, 1)

Done == pc = "done"

\* the archive opens and has a member to test
Usable ==
    /\ zip_path.state = "ok"
    /\ ~zip_path.listFails
    /\ NonDirs(zip_path.names) # << >>

Target == NonDirs(zip_path.names)[1]

\* the capabilities of a run: primary always, secondary with pyzipper
PrimaryAccepts(c, enc) ==
    /\ Encode(c, enc).ok
    /\ try_zipfile_open(zip_path, Target, Encode(c, enc).bytes)

SecondaryAccepts(c, enc) ==
    /\ pyzInstalled
    /\ Encode(c, enc).ok
    /\ try_pyzipper(zip_path, Target, Encode(c, enc).bytes)

AcceptedUnder(c, enc) == PrimaryAccepts(c, enc) \/ SecondaryAccepts(c, enc)

\* c validates under some (encoding, available capability) combination
Validates(c) == \E i \in 1..Len(Encodings) : AcceptedUnder(c, Encodings[i])

\* some encoding of c reproduces the password bytes of the archive
IsTruePassword(c) ==
    \E i \in 1..Len(Encodings) :
        /\ Encode(c, Encodings[i]).ok
        /\ Encode(c, Encodings[i]).bytes = zip_path.pwd

\* the true password first occurs at position k and nothing before it validates
FirstAt(w, k) ==
    /\ k \in 1..Len(w)
    /\ IsTruePassword(w[k])
    /\ \A j \in 1..(k - 1) : w[j] # w[k] /\ ~Validates(w[j])

\* the run found W[k] after reading and probing exactly the first k candidates
FoundAt(w, k) ==
    LET line == LineOf[k]
    IN  /\ rc = 0
        /\ stdout = << w[k] >>
        /\ total_tried = k
        /\ pos = line
        /\ \A j \in 1..k : \E i \in 1..Len(trace) :
               trace[i].kind = "probe" /\ trace[i].idx = j
        /\ \A i \in 1..Len(trace) :
               /\ trace[i].kind = "probe" => trace[i].idx <= k
               /\ trace[i].kind = "read" => trace[i].idx <= line

ErrorTags ==
    { "zip_not_found", "bad_zip", "zip_open_err", "list_err", "no_members",
      "wl_not_found", "wl_read_err" }

DebugTags == { "dbg_member", "dbg_pyz", "dbg_nopyz", "dbg_progress" }

OnStderr(tag) == \E i \in 1..Len(stderr) : stderr[i] = tag

ErrorCount == Cardinality({ i \in 1..Len(stderr) : stderr[i] \in ErrorTags })

Probes == { i \in 1..Len(trace) : trace[i].kind = "probe" }

(* ------------------------------- claims ------------------------------- *)

\* C1 as stated: whenever the true password first occurs at position k of
\* the wordlist and no earlier candidate validates, the run prints it, returns
\* 0 and has read and probed exactly the first k candidates.
C1_AsStated ==
    (Done /\ Usable /\ wordlist_path.exists) =>
        LET w == W IN \A k \in 1..Len(w) : FirstAt(w, k) => FoundAt(w, k)

\* C1 amended: the same, for a true password that some available capability
\* accepts (an AES archive needs pyzipper).
C1_FirstMatchWins ==
    (Done /\ Usable /\ wordlist_path.exists) =>
        LET w == W
        IN  \A k \in 1..Len(w) : (FirstAt(w, k) /\ Validates(w[k])) => FoundAt(w, k)

C1_Witness ==
    /\ Done
    /\ Usable
    /\ rc = 0
    /\ total_tried = 2
    /\ Len(W) >= 2
    /\ FirstAt(W, 2)
    /\ Validates(W[2])

\* C2: in every terminal state after a successful open the archive handle is
\* no longer held open.
C2_HandleReleased == (Done /\ zip_path.state = "ok") => z # "open"

\* C3: when no candidate of the wordlist reproduces the archive's password
\* bytes under either encoding, the run returns 1 and prints nothing.
C3_NoFalsePositive ==
    (/\ Done
     /\ Usable
     /\ wordlist_path.exists
     /\ wordlist_path.tail = "eof"
     /\ LET w == W IN \A k \in 1..Len(w) : ~IsTruePassword(w[k]))
        => (rc = 1 /\ stdout = << >>)

\* C4: stdout holds exactly one line, the discovered candidate alone, exactly
\* when the exit code is 0; with exit code 1 or 2, and while the run is in
\* progress, it is empty; diagnostics are on stderr only.
C4_StdoutContract ==
    /\ (Done /\ rc = 0) =>
           /\ Len(stdout) = 1
           /\ stdout[1] = candidate
           /\ LET w == W IN \E k \in 1..Len(w) : stdout[1] = w[k]
           /\ \A i \in 1..Len(stdout[1]) : stdout[1][i] \notin { LF, CR }
    /\ ~(Done /\ rc = 0) => stdout = << >>
    /\ rc \in { 1, 2 } => stdout = << >>
    /\ \A i \in 1..Len(stderr) : stderr[i] \in ErrorTags \cup DebugTags
    /\ (~verbose) => \A i \in 1..Len(stderr) : stderr[i] \in ErrorTags
    /\ (verbose /\ pc \in { "import", "next", "encode", "primary", "secondary",
                            "progress" }) => OnStderr("dbg_member")

C4_Witness ==
    /\ Done
    /\ rc = 0
    /\ verbose
    /\ OnStderr("dbg_progress")
    /\ Len(stdout) = 1

\* C5: a run ends with exactly one outcome, Found (password on stdout, exit
\* 0), NotFound (exit 1) or Error (one error message, exit 2); there is none
\* before the end, and nothing changes after it.
C5_Outcome ==
    /\ ~Done => (rc = -1 /\ stdout = << >> /\ ErrorCount = 0)
    /\ Done =>
          \/ rc = 0 /\ Len(stdout) = 1 /\ ErrorCount = 0
          \/ rc = 1 /\ stdout = << >> /\ ErrorCount = 0
          \/ rc = 2 /\ stdout = << >> /\ ErrorCount = 1

C5_ExactlyOneOutcome == [] C5_Outcome /\ [][Done => UNCHANGED vars]_vars

C5_Witness == Done /\ rc = 1 /\ Probes # {}

\* C6: a missing or malformed archive gives exit code 2 and empty stdout,
\* whatever the wordlist; the wordlist is not opened and nothing is probed.
C6_BadArchive ==
    (Done /\ zip_path.state \in { "missing", "bad" }) =>
        /\ rc = 2
        /\ stdout = << >>
        /\ ~wlOpened
        /\ trace = << >>

C6_Witness ==
    /\ Done
    /\ zip_path.state = "bad"
    /\ wordlist_path.exists
    /\ Len(W) > 0
    /\ rc = 2

\* C7 as stated: a missing wordlist gives exit code 2, empty stdout and the
\* wordlist-not-found message, and nothing is probed.
C7_AsStated ==
    (Done /\ ~wordlist_path.exists) =>
        /\ rc = 2
        /\ stdout = << >>
        /\ OnStderr("wl_not_found")
        /\ Probes = {}

\* C7 amended: a missing wordlist gives exit code 2 and empty stdout and
\* nothing is probed; the message is the wordlist-not-found one when the
\* archive opens and has a testable member, and the archive's error otherwise.
C7_MissingWordlist ==
    (Done /\ ~wordlist_path.exists) =>
        /\ rc = 2
        /\ stdout = << >>
        /\ Probes = {}
        /\ ErrorCount = 1
        /\ Usable <=> OnStderr("wl_not_found")

C7_Witness ==
    /\ Done
    /\ ~wordlist_path.exists
    /\ Usable
    /\ zip_path.scheme = "zipcrypto"
    /\ OnStderr("wl_not_found")

\* C8: an archive with no non-directory entry gives exit code 2 and empty
\* stdout; the wordlist is not opened and nothing is probed.
C8_NoTestableEntry ==
    (Done /\ zip_path.state = "ok"
          /\ \A i \in 1..Len(zip_path.names) : zip_path.names[i] = "d/") =>
        /\ rc = 2
        /\ stdout = << >>
        /\ ~wlOpened
        /\ trace = << >>

C8_Witness ==
    /\ Done
    /\ zip_path.state = "ok"
    /\ ~zip_path.listFails
    /\ zip_path.names = << "d/" >>
    /\ wordlist_path.exists
    /\ OnStderr("no_members")

\* C9: a candidate whose UTF-8 bytes every available capability rejects and
\* whose Latin-1 bytes some available capability accepts is found, when no
\* earlier candidate validates.
C9_Latin1Fallback ==
    (Done /\ Usable /\ wordlist_path.exists) =>
        LET w == W
        IN  \A k \in 1..Len(w) :
                (/\ ~AcceptedUnder(w[k], "utf-8")
                 /\ AcceptedUnder(w[k], "latin-1")
                 /\ \A j \in 1..(k - 1) : ~Validates(w[j]))
                    => (rc = 0 /\ stdout = << w[k] >> /\ total_tried = k)

C9_Witness ==
    /\ Done
    /\ rc = 0
    /\ Len(trace) > 0
    /\ trace[Len(trace)].enc = "latin-1"
    /\ ~AcceptedUnder(candidate, "utf-8")
    /\ total_tried = 2

\* C10: a run with verbose and a run without it, on the same archive and
\* wordlist, make the same reads and probes in the same order and end with the
\* same exit code and stdout.
C10_VerboseObservational ==
    (run = 2 /\ Done /\ verbose # prev.verbose) =>
        /\ rc = prev.rc
        /\ stdout = prev.stdout
        /\ trace = prev.trace

C10_Witness ==
    /\ run = 2
    /\ Done
    /\ verbose # prev.verbose
    /\ stderr # prev.stderr
    /\ OnStderr("dbg_progress")
    /\ rc = 0

EncRank(enc) == IF enc = "utf-8" THEN 0 ELSE 1

CapRank(cap) == IF cap = "primary" THEN 0 ELSE 1

ProbeKey(e) == 4 * e.idx + 2 * EncRank(e.enc) + CapRank(e.cap)

\* the newest probe before position n of the trace, 0 when there is none
RECURSIVE PrevProbe(_)
PrevProbe(n) ==
    IF n <= 1 THEN 0
    ELSE IF trace[n - 1].kind = "probe" THEN n - 1 ELSE PrevProbe(n - 1)

\* C12: probes come in the order (utf-8, primary), (utf-8, secondary),
\* (latin-1, primary), (latin-1, secondary) within a candidate and candidate
\* after candidate; a secondary probe is made only with pyzipper acquired and
\* right after the primary probe of the same bytes returned false.  Stated
\* for the newest probe against everything before it: the trace only grows,
\* so this covers every probe of the run.
C12_ProbeOrder ==
    LET n == Len(trace)
    IN  (n > 0 /\ trace[n].kind = "probe") =>
            LET e == trace[n]
            IN  /\ \A i \in 1..(n - 1) :
                       trace[i].kind = "probe" => ProbeKey(trace[i]) < ProbeKey(e)
                /\ e.cap = "secondary" =>
                       /\ pyzInstalled
                       /\ pyzipper_module
                       /\ n > 1
                       /\ trace[n - 1] = [e EXCEPT !.cap = "primary"]
                       /\ ~try_zipfile_open(zip_path, e.member, e.bytes)
                /\ (e.cap = "primary" /\ e.enc = "utf-8") =>
                       /\ n > 1
                       /\ trace[n - 1].kind = "read"
                /\ (e.cap = "primary" /\ e.enc = "latin-1") =>
                       /\ PrevProbe(n) = n - 1
                       /\ trace[n - 1].idx = e.idx
                       /\ trace[n - 1].enc = "utf-8"
                       /\ trace[n - 1].cap =
                              (IF pyzInstalled THEN "secondary" ELSE "primary")

C12_Witness ==
    /\ Len(trace) > 0
    /\ trace[Len(trace)].kind = "probe"
    /\ trace[Len(trace)].cap = "secondary"
    /\ trace[Len(trace)].enc = "latin-1"
    /\ trace[Len(trace)].idx = 2

\* C13 as stated: an Error outcome (exit 2) is produced only before the first
\* verification attempt of the run.
C13_AsStated == (Done /\ rc = 2) => Probes = {}

\* C13 amended: an Error outcome is produced before the first verification
\* attempt, or, after attempts were made, by a wordlist read error and by
\* nothing else.
C13_ErrorsOutsideProbes ==
    (Done /\ rc = 2) =>
        \/ Probes = {}
        \/ /\ stderr[Len(stderr)] = "wl_read_err"
           /\ wordlist_path.tail = "ioerror"
           /\ pos = Len(wordlist_path.lines)
           /\ ErrorCount = 1

C13_Witness ==
    /\ Done
    /\ rc = 2
    /\ Probes # {}
    /\ OnStderr("wl_read_err")

\* C14: a probe that rejects the password bytes, for a wrong password or for
\* any other error, changes neither the exit code nor the output; the run
\* goes on with the next capability, encoding or candidate.
C14_ProbeStep ==
    /\ (pc = "primary" /\ ~try_zipfile_open(zip_path, target_member, pwd_bytes)) =>
           /\ pc' = "secondary"
           /\ rc' = -1
           /\ UNCHANGED << stdout, stderr, candidate, pwd_bytes, encIdx >>
    /\ (pc = "secondary" /\ pyzipper_module
            /\ ~try_pyzipper(zip_path, target_member, pwd_bytes)) =>
           /\ pc' = (IF encIdx < Len(Encodings) THEN "encode" ELSE "progress")
           /\ rc' = -1
           /\ UNCHANGED << stdout, stderr, candidate >>

C14_ProbeFailuresAbsorbed == [][C14_ProbeStep]_vars

C14_Witness ==
    /\ pc = "encode"
    /\ encIdx = 2
    /\ rc = -1
    /\ zip_path.scheme = "aes"
    /\ Len(trace) > 0
    /\ trace[Len(trace)].kind = "probe"
    /\ trace[Len(trace)].cap = "secondary"

\* C15: no (candidate position, encoding, capability) triple is probed twice,
\* no wordlist line is read twice, and neither reads nor probes go back to an
\* earlier position.  Stated for the newest event against all earlier ones.
C15_NoRetry ==
    LET n == Len(trace)
    IN  n > 0 =>
            LET e == trace[n]
            IN  \A i \in 1..(n - 1) :
                    /\ (e.kind = "probe" /\ trace[i].kind = "probe") =>
                           /\ << trace[i].idx, trace[i].enc, trace[i].cap >>
                                  # << e.idx, e.enc, e.cap >>
                           /\ trace[i].idx <= e.idx
                    /\ (e.kind = "read" /\ trace[i].kind = "read") =>
                           trace[i].idx < e.idx

C15_Witness ==
    /\ Done
    /\ rc = 1
    /\ pyzipper_module
    /\ Cardinality(Probes) = 8

\* the candidate consists of ASCII characters only
IsAscii(s) == \A i \in 1..Len(s) : s[i] < 128

WithoutLineEnd(line) ==
    LET keep == { i \in 1..Len(line) : line[i] \notin { LF, CR } }
    IN  IF keep = {} THEN << >>
        ELSE SubSeq(line, 1, CHOOSE i \in keep : \A j \in keep : j <= i)

\* the readable lines without their line ends, empty ones removed, in order
ExpectedCandidates ==
    LET stripped == [i \in 1..Len(wordlist_path.lines) |->
                        WithoutLineEnd(wordlist_path.lines[i])]
    IN  SelectSeq(stripped, LAMBDA s : s # << >>)

\* the first probe of every candidate handed to the loop of find_password
FirstProbes ==
    SelectSeq(trace, LAMBDA e : e.kind = "probe" /\ e.enc = "utf-8" /\ e.cap = "primary")

\* C17: the candidates handed to the orchestrator are the wordlist lines
\* without trailing CR/LF and without the empty ones, in order and with
\* duplicates; an empty line causes no probe, and a wordlist of empty lines
\* only ends in NotFound with no probe.
C17_CandidateSequence ==
    LET exp == ExpectedCandidates
        first == FirstProbes
    IN  /\ Len(first) <= Len(exp)
        /\ \A k \in 1..Len(first) :
               first[k].idx = k /\ first[k].bytes = EncodeBytes(exp[k], "utf-8")
        /\ pc \in { "encode", "primary", "secondary", "progress" } =>
               /\ total_tried \in 1..Len(exp)
               /\ candidate = exp[total_tried]
        /\ \A i \in Probes : trace[i].idx \in 1..Len(first)
        /\ (Done /\ rc = 1) => Len(first) = Len(exp)
        /\ (Done /\ Usable /\ wordlist_path.exists /\ wordlist_path.tail = "eof"
                 /\ exp = << >>) => (rc = 1 /\ Probes = {})

C17_Witness ==
    /\ Done
    /\ rc = 1
    /\ wordlist_path.lines = << << LF >>, << ChEacute >> >>
    /\ Len(FirstProbes) = 1
    /\ total_tried = 1

\* the first entry of the listing, in archive order, that does not end in '/'
FirstFile ==
    LET names == zip_path.names
        files == { i \in 1..Len(names) : names[i] # "d/" }
    IN  names[CHOOSE i \in files : \A j \in files : i <= j]

\* C18: the target member is the first entry of the listing whose name does
\* not end in '/'; it stays that entry for the whole run, and every probe
\* names it and no other entry.
C18_TargetFixed ==
    /\ (Usable /\ pc \notin { "open_zip", "list" }) => target_member = FirstFile
    /\ \A i \in Probes : trace[i].member = FirstFile

C18_Witness ==
    /\ Done
    /\ zip_path.names = << "b", "a" >>
    /\ pyzipper_module
    /\ Cardinality(Probes) >= 4
    /\ \A i \in Probes : trace[i].member = "b"

\* the lines read so far
Reads == SelectSeq(trace, LAMBDA e : e.kind = "read")

\* the run can reach the wordlist, no candidate validates and the wordlist
\* reads to its end
NoMatchNoReadError ==
    /\ Usable
    /\ wordlist_path.exists
    /\ wordlist_path.tail = "eof"
    /\ \A k \in 1..Len(W) : ~Validates(W[k])

\* C19: every run eventually ends; a run in which no probe succeeds and no
\* read error occurs ends as NotFound after reading every line once and
\* handing over every candidate once.
C19_Terminates ==
    <>( /\ Done
        /\ rc \in { 0, 1, 2 }
        /\ NoMatchNoReadError =>
               /\ rc = 1
               /\ Len(Reads) = Len(wordlist_path.lines)
               /\ \A k \in 1..Len(Reads) : Reads[k].idx = k
               /\ Len(FirstProbes) = Len(ExpectedCandidates)
               /\ \A k \in 1..Len(FirstProbes) : FirstProbes[k].idx = k )

C19_Witness ==
    /\ Done
    /\ rc = 1
    /\ NoMatchNoReadError
    /\ Len(Reads) = 2
    /\ Len(FirstProbes) = 2

\* the read of the line after the lines of the wordlist fails
ReadFails == wordlist_path.exists /\ wordlist_path.tail = "ioerror"

\* C20: when the read of the line at position j fails, the run ends as Found
\* with the first validating candidate if a candidate before j validates;
\* otherwise it ends with exit code 2 and an empty stdout, whatever lies
\* after j, and every candidate before j was probed before the error was
\* reported.
C20_ReadErrorAfterPrefix ==
    (Usable /\ ReadFails) =>
        LET w == W
            hits == { k \in 1..Len(w) : Validates(w[k]) }
        IN  /\ OnStderr("wl_read_err") =>
                   /\ hits = {}
                   /\ Len(FirstProbes) = Len(w)
                   /\ \A k \in 1..Len(w) : FirstProbes[k].idx = k
                   /\ \A k \in 1..Len(Reads) : Reads[k].idx <= Len(wordlist_path.lines)
            /\ Done =>
                   IF hits # {}
                   THEN /\ rc = 0
                        /\ stdout = << w[CHOOSE k \in hits : \A h \in hits : k <= h] >>
                        /\ ~OnStderr("wl_read_err")
                   ELSE /\ rc = 2
                        /\ stdout = << >>
                        /\ OnStderr("wl_read_err")

C20_Witness ==
    /\ Done
    /\ rc = 2
    /\ stdout = << >>
    /\ Usable
    /\ ReadFails
    /\ Len(W) >= 1
    /\ Len(FirstProbes) = Len(W)
    /\ \E i \in 1..Len(wordlist_path.rest) :
           IsTruePassword(WithoutLineEnd(wordlist_path.rest[i]))

====
